---------------------------- MODULE Spec2Model ----------------------------
(***************************************************************************)
(* SafeStreet Canada accident-risk dashboard (final.py): one run of the    *)
(* script, from loading the dataset to drawing the map.  polish.py runs    *)
(* the same statements for the labels, the ranking, the colours and the    *)
(* coordinates, without the guards and without the radius and gradient.    *)
(*                                                                         *)
(* Strings that the script inspects (column names, neighbourhood labels)   *)
(* are sequences of one-character strings, so that startswith, the two     *)
(* regular-expression replacements and the ordering of labels are computed *)
(* character by character.  Floating-point numbers are exact fractions     *)
(* [n, d]; d = 0 stands for the IEEE non-finite values: 0/0 is NaN, 1/0    *)
(* is +inf, -1/0 is -inf.                                                  *)
(***************************************************************************)
EXTENDS Integers, Sequences, FiniteSets, TLC

(***************************************************************************)
(* Characters and strings                                                  *)
(***************************************************************************)

\* The characters of the column names and labels below, in code-point order
\* (Python compares str values by code point).
Chars ==
    << " ", "(", ")", "-",
       "0", "1", "2", "3", "4", "5", "6", "7", "8", "9",
       "A", "B", "D", "E", "G", "H", "I", "M", "N", "O", "R", "S", "U", "W",
       "_",
       "a", "c", "d", "e", "f", "g", "i", "l", "n", "o", "r", "s", "t", "u",
       "v", "w" >>

Ord(c) == CHOOSE i \in 1..Len(Chars) : Chars[i] = c

Digits == {"0", "1", "2", "3", "4", "5", "6", "7", "8", "9"}

\* \s of the regular expressions, restricted to Chars.
Whitespace == {" "}

\* Python's str < str.
LexLess(a, b) ==
    \E k \in 1..(Len(a) + 1) :
        /\ k <= Len(b)
        /\ \A j \in 1..(k - 1) : a[j] = b[j]
        /\ \/ k = Len(a) + 1
           \/ Ord(a[k]) < Ord(b[k])

\* str.startswith
StartsWithAt(s, i, p) ==
    /\ i + Len(p) - 1 <= Len(s)
    /\ \A j \in 1..Len(p) : s[i + j - 1] = p[j]

StartsWith(s, p) == StartsWithAt(s, 1, p)

\* The position after the longest run of characters of class cls from i on.
RECURSIVE SkipClass(_, _, _)
SkipClass(s, i, cls) ==
    IF i <= Len(s) /\ s[i] \in cls THEN SkipClass(s, i + 1, cls) ELSE i

NEIGHBOURHOOD_ ==
    << "N", "E", "I", "G", "H", "B", "O", "U", "R", "H", "O", "O", "D", "_" >>

\* A match of NEIGHBOURHOOD_\d+_ that starts at i: the position after it,
\* or 0 when there is none.
MatchPrefixAt(s, i) ==
    IF ~StartsWithAt(s, i, NEIGHBOURHOOD_) THEN 0
    ELSE LET d == i + Len(NEIGHBOURHOOD_)
             e == SkipClass(s, d, Digits)
         IN  IF e > d /\ e <= Len(s) /\ s[e] = "_" THEN e + 1 ELSE 0

\* A match of \s*\(\d+\) that starts at i: the position after it, or 0.
MatchSuffixAt(s, i) ==
    LET p == SkipClass(s, i, Whitespace)
    IN  IF ~(p <= Len(s) /\ s[p] = "(") THEN 0
        ELSE LET e == SkipClass(s, p + 1, Digits)
             IN  IF e > p + 1 /\ e <= Len(s) /\ s[e] = ")" THEN e + 1 ELSE 0

\* re.sub(pattern, '', s): every non-overlapping match, left to right, is
\* removed.
RECURSIVE SubPrefix(_, _)
SubPrefix(s, i) ==
    IF i > Len(s) THEN << >>
    ELSE LET e == MatchPrefixAt(s, i)
         IN  IF e # 0 THEN SubPrefix(s, e) ELSE << s[i] >> \o SubPrefix(s, i + 1)

RECURSIVE SubSuffix(_, _)
SubSuffix(s, i) ==
    IF i > Len(s) THEN << >>
    ELSE LET e == MatchSuffixAt(s, i)
         IN  IF e # 0 THEN SubSuffix(s, e) ELSE << s[i] >> \o SubSuffix(s, i + 1)

ReplacePrefix(s) == SubPrefix(s, 1)

ReplaceSuffix(s) == SubSuffix(s, 1)

(***************************************************************************)
(* Floating-point values as fractions                                      *)
(***************************************************************************)

Abs(x) == IF x < 0 THEN -x ELSE x

Sign(x) == IF x < 0 THEN -1 ELSE IF x > 0 THEN 1 ELSE 0

RECURSIVE GCD(_, _)
GCD(a, b) == IF b = 0 THEN a ELSE GCD(b, a % b)

\* n / d in lowest terms with a positive denominator; d = 0 gives NaN or an
\* infinity.
Q(n, d) ==
    IF d = 0 THEN [n |-> Sign(n), d |-> 0]
    ELSE LET g == GCD(Abs(n), Abs(d))
         IN  [n |-> Sign(d) * (n \div g), d |-> Abs(d) \div g]

NaN == [n |-> 0, d |-> 0]

IsNaN(x) == x.d = 0 /\ x.n = 0

IsFinite(x) == x.d # 0

FAdd(a, b) ==
    IF IsFinite(a) /\ IsFinite(b) THEN Q(a.n * b.d + b.n * a.d, a.d * b.d)
    ELSE IF IsNaN(a) \/ IsNaN(b) THEN NaN
    ELSE IF IsFinite(a) THEN b
    ELSE IF IsFinite(b) \/ a.n = b.n THEN a
    ELSE NaN

FNeg(a) == [n |-> -a.n, d |-> a.d]

FSub(a, b) == FAdd(a, FNeg(b))

FMul(a, b) ==
    IF IsFinite(a) /\ IsFinite(b) THEN Q(a.n * b.n, a.d * b.d)
    ELSE [n |-> Sign(a.n) * Sign(b.n), d |-> 0]

FDiv(a, b) ==
    IF IsFinite(a) /\ IsFinite(b) THEN Q(a.n * b.d, a.d * b.n)
    ELSE IF IsFinite(b) THEN [n |-> a.n * (IF b.n < 0 THEN -1 ELSE 1), d |-> 0]
    ELSE IF IsFinite(a) THEN Q(0, 1)
    ELSE NaN

FLess(a, b) ==
    IF IsNaN(a) \/ IsNaN(b) THEN FALSE
    ELSE IF IsFinite(a) /\ IsFinite(b) THEN a.n * b.d < b.n * a.d
    ELSE IF IsFinite(a) THEN b.n > 0
    ELSE IF IsFinite(b) THEN a.n < 0
    ELSE a.n < b.n


(***************************************************************************)
(* Column names and the inputs of a run                                    *)
(***************************************************************************)

\* The column the script adds for the reconstructed label.
NEIGHBOURHOOD ==
    << "N", "E", "I", "G", "H", "B", "O", "U", "R", "H", "O", "O", "D" >>

\* The column the script adds for the score.
Severe_Accident_Probability ==
    << "S", "e", "v", "e", "r", "e", "_", "A", "c", "c", "i", "d", "e", "n",
       "t", "_", "P", "r", "o", "b", "a", "b", "i", "l", "i", "t", "y" >>

\* A numeric feature column of features_columns.pkl.
FEATURE == << "f", "1" >>

\* A column of the dataset that is neither an indicator nor a feature.
RECORD_ID == << "i", "d" >>

\* 'NEIGHBOURHOOD_07_Downtown (123)'
ColDowntown ==
    NEIGHBOURHOOD_ \o << "0", "7", "_", "D", "o", "w", "n", "t", "o", "w", "n",
                         " ", "(", "1", "2", "3", ")" >>

\* 'NEIGHBOURHOOD_1_Alderwood(20)'
ColAlderwood ==
    NEIGHBOURHOOD_ \o << "1", "_", "A", "l", "d", "e", "r", "w", "o", "o", "d",
                         "(", "2", "0", ")" >>

\* 'NEIGHBOURHOOD_12_A (2) B'
ColInterior ==
    NEIGHBOURHOOD_ \o << "1", "2", "_", "A", " ", "(", "2", ")", " ", "B" >>

\* 'NEIGHBOURHOOD_3_Downtown': a second column of the label 'Downtown'
ColDowntown3 ==
    NEIGHBOURHOOD_ \o << "3", "_", "D", "o", "w", "n", "t", "o", "w", "n" >>

\* The column layouts of the small datasets: the indicator columns, in the
\* order of the file.
Layouts ==
    { << >>,
      << ColAlderwood >>,
      << ColDowntown, ColAlderwood >>,
      << ColAlderwood, ColDowntown >>,
      << ColDowntown3, ColDowntown >>,
      << ColInterior, ColAlderwood >> }

DigitSeq == << "0", "1", "2", "3", "4", "5", "6", "7", "8", "9" >>

\* str(i)
RECURSIVE Dec(_)
Dec(i) ==
    IF i < 10 THEN << DigitSeq[i + 1] >>
    ELSE Dec(i \div 10) \o << DigitSeq[(i % 10) + 1] >>

\* 'NEIGHBOURHOOD_<i>_W<i>', with ' (<i>)' appended for even i
WideName(i) ==
    NEIGHBOURHOOD_ \o Dec(i) \o << "_", "W" >> \o Dec(i)
        \o (IF i % 2 = 0 THEN << " ", "(" >> \o Dec(i) \o << ")" >> ELSE << >>)

Range(s) == {s[i] : i \in 1..Len(s)}

\* Bounds of the datasets the runs are checked on: the records of a small
\* dataset, the indicator columns of a wide one.
MaxRows == 2

MaxGroups == 22

\* Values of an indicator cell.
IndicatorValues == {0, 1}

\* Values of the feature cell of a record; the classifier's probability of a
\* record with feature x is x/100.
Scores == {10, 25}

SeqsUpTo(S, k) == UNION {[1..n -> S] : n \in 0..k}

\* The column after the indicator columns: the feature, or another column.
LastColumnChoices == {RECORD_ID, FEATURE}

\* A record is the sequence of its cells, in the order of the columns.
RowsOf(ncols, last) ==
    {Append(ind, x) :
        ind \in [1..Len(ncols) -> IndicatorValues],
        x \in IF last = FEATURE THEN Scores ELSE {0}}

\* Small datasets: a layout of indicator columns, the feature column or
\* another column after them, and every table of at most MaxRows records.
SmallDatasets ==
    UNION { UNION { { [exists |-> TRUE, columns |-> Append(ncols, last), rows |-> rows] :
                        rows \in SeqsUpTo(RowsOf(ncols, last), MaxRows) } :
                    last \in LastColumnChoices } :
            ncols \in Layouts }

\* Wide datasets: g one-hot indicator columns and one record per column; the
\* feature values rise (up) or fall along the columns, and with t > 0 the
\* records of columns t and t+1 have the same value.
WideScore(i, up, t) ==
    LET j == IF t > 0 /\ i = t + 1 THEN t ELSE i
    IN  IF up THEN 3 * j ELSE 100 - 3 * j

WideColumns(g) == [i \in 1..g |-> WideName(i)]

WideRow(g, i, up, t) ==
    Append([c \in 1..g |-> IF c = i THEN 1 ELSE 0], WideScore(i, up, t))

WideDatasets ==
    { [exists |-> TRUE,
       columns |-> WideColumns(p[1]) \o << FEATURE >>,
       rows |-> [i \in 1..p[1] |-> WideRow(p[1], i, p[2], p[3])]] :
      p \in {q \in (3..MaxGroups) \X BOOLEAN \X (0..MaxGroups) : q[3] < q[1]} }

\* processed_data_numeric.csv is absent.
NoFile == [exists |-> FALSE, columns |-> << >>, rows |-> << >>]

\* features_columns.pkl: the feature column alone, or with an indicator column.
FeatureSchemas == {<< FEATURE >>, << FEATURE, ColAlderwood >>}

\* The inputs of a run: a dataset file and a feature schema.  A wide dataset
\* comes with the schema it has the columns of.
Inputs ==
    ((SmallDatasets \cup {NoFile}) \X FeatureSchemas)
        \cup (WideDatasets \X {<< FEATURE >>})

(***************************************************************************)
(* The classifier                                                          *)
(***************************************************************************)

\* model.predict_proba(X)[:, 1] for one row of X: the classifier reads the
\* first feature.
predict_proba(x) == Q(x[1], 100)


(***************************************************************************)
(* The state of a run                                                      *)
(***************************************************************************)

VARIABLES
    file,               \* processed_data_numeric.csv (never written)
    features_columns,   \* the loaded feature schema (never written)
    pc,                 \* the statement block the script is about to run
    data,               \* the DataFrame data: its columns and its rows
    neigh_cols,         \* the indicator columns found in data
    top_areas,          \* the DataFrame top_areas, a sequence of rows
    prob_min,           \* min of the retained mean probabilities
    prob_max,           \* max of the retained mean probabilities
    warnings,           \* the st.warning calls made
    rendered,           \* the Streamlit elements drawn, in order
    error               \* the exception that ended the run, or "none"

vars == << file, features_columns, pc, data, neigh_cols, top_areas,
           prob_min, prob_max, warnings, rendered, error >>

Init ==
    /\ \E in \in Inputs :
          /\ file = in[1]
          /\ features_columns = in[2]
    /\ pc = "load_data"
    /\ data = [columns |-> << >>, rows |-> << >>]
    /\ neigh_cols = << >>
    /\ top_areas = << >>
    /\ prob_min = NaN
    /\ prob_max = NaN
    /\ warnings = {}
    /\ rendered = << >>
    /\ error = "none"

\* The exceptions a run can end with.
ErrKey == "KeyError: 'NEIGHBOURHOOD'"

ErrEmpty == "ValueError: Found array with 0 sample(s)"

ErrNaN == "ValueError: cannot convert float NaN to integer"

ErrInf == "OverflowError: cannot convert float infinity to integer"

\* An uncaught exception ends the script.
Raise(exc) ==
    /\ error' = exc
    /\ pc' = "raised"

\* The position of the column name in df.
ColumnIndex(df, name) == CHOOSE k \in 1..Len(df.columns) : df.columns[k] = name

\* df[name] of the row at position i.
Cell(df, i, name) == df.rows[i][ColumnIndex(df, name)]

\* df[name] = values
SetColumn(df, name, values) ==
    IF name \in Range(df.columns)
    THEN [columns |-> df.columns,
          rows |-> [i \in 1..Len(df.rows) |->
                       [df.rows[i] EXCEPT ![ColumnIndex(df, name)] = values[i]]]]
    ELSE [columns |-> Append(df.columns, name),
          rows |-> [i \in 1..Len(df.rows) |-> Append(df.rows[i], values[i])]]

(***************************************************************************)
(* Load data                                                               *)
(***************************************************************************)

LoadData ==
    /\ pc = "load_data"
    /\ IF ~file.exists
       THEN /\ warnings' = warnings \cup {"data_not_found"}
            /\ data' = [columns |-> features_columns, rows |-> << >>]
       ELSE /\ data' = [columns |-> file.columns, rows |-> file.rows]
            /\ UNCHANGED warnings
    /\ pc' = "identify"
    /\ UNCHANGED << file, features_columns, neigh_cols, top_areas, prob_min,
                    prob_max, rendered, error >>

(***************************************************************************)
(* Identify neighbourhood columns and reconstruct the label                *)
(***************************************************************************)

\* [col for col in data.columns if col.startswith('NEIGHBOURHOOD_')]
NeighCols(columns) ==
    SelectSeq(columns, LAMBDA col : StartsWith(col, NEIGHBOURHOOD_))

\* A faulty idxmax: the last column that holds the row's maximum.
idxmax_last(df, r, cols) ==
    LET v == [i \in 1..Len(cols) |-> Cell(df, r, cols[i])]
        last == CHOOSE i \in 1..Len(cols) :
                    /\ \A j \in 1..Len(cols) : v[j] <= v[i]
                    /\ \A j \in (i + 1)..Len(cols) : v[j] < v[i]
    IN  cols[last]

\* df[cols].idxmax(axis=1) of the row at position r: the first column, in
\* the order of cols, that holds the row's maximum over cols.
idxmax(df, r, cols) ==
    LET v == [i \in 1..Len(cols) |-> Cell(df, r, cols[i])]
        first == CHOOSE i \in 1..Len(cols) :
                     /\ \A j \in 1..Len(cols) : v[j] <= v[i]
                     /\ \A j \in 1..(i - 1) : v[j] < v[i]
    IN  cols[first]

\* The label of the row at position r: the idxmax column's name after the
\* two replacements.
Label(df, r, cols) == ReplaceSuffix(ReplacePrefix(idxmax(df, r, cols)))

IdentifyNeighbourhoods ==
    /\ pc = "identify"
    /\ neigh_cols' = NeighCols(data.columns)
    /\ IF neigh_cols' # << >>
       THEN /\ data' = SetColumn(data, NEIGHBOURHOOD,
                           [i \in 1..Len(data.rows) |-> Label(data, i, neigh_cols')])
            /\ UNCHANGED warnings
       ELSE /\ warnings' = warnings \cup {"no_neighbourhood_columns"}
            /\ UNCHANGED data
    /\ pc' = "predict"
    /\ UNCHANGED << file, features_columns, top_areas, prob_min, prob_max,
                    rendered, error >>

(***************************************************************************)
(* Make predictions                                                        *)
(***************************************************************************)

FromInt(k) == Q(k, 1)

\* all(col in data.columns for col in features_columns)
HasFeatures(df, fcols) == \A i \in 1..Len(fcols) : fcols[i] \in Range(df.columns)

\* X = data[features_columns]: the row at position i
X(df, fcols, i) == [k \in 1..Len(fcols) |-> Cell(df, i, fcols[k])]

\* model.predict_proba(X)[:, 1] * 100
Percentages(df, fcols) ==
    [i \in 1..Len(df.rows) |-> FMul(predict_proba(X(df, fcols, i)), FromInt(100))]

MakePredictions ==
    /\ pc = "predict"
    /\ UNCHANGED << file, features_columns, neigh_cols, top_areas, prob_min,
                    prob_max, rendered >>
    /\ IF HasFeatures(data, features_columns)
       THEN \* A scikit-learn estimator rejects an X of zero rows with
            \* ValueError; another estimator may return zero probabilities.
            \/ /\ data.rows = << >>
               /\ Raise(ErrEmpty)
               /\ UNCHANGED << data, warnings >>
            \/ /\ data' = SetColumn(data, Severe_Accident_Probability,
                                       Percentages(data, features_columns))
               /\ pc' = "top_areas"
               /\ UNCHANGED << warnings, error >>
       ELSE /\ warnings' = warnings \cup {"no_feature_columns"}
            /\ data' = SetColumn(data, Severe_Accident_Probability,
                                 [i \in 1..Len(data.rows) |-> FromInt(0)])
            /\ pc' = "top_areas"
            /\ UNCHANGED error


(***************************************************************************)
(* Top 20 most accident-prone neighbourhoods                               *)
(***************************************************************************)

\* .head(20)
TopN == 20

\* The group keys of groupby('NEIGHBOURHOOD'): the distinct labels.
GroupKeys(df) == {Cell(df, i, NEIGHBOURHOOD) : i \in 1..Len(df.rows)}

\* groupby sorts the group keys (sort=True): labels in ascending order.
RECURSIVE SortedKeys(_)
SortedKeys(S) ==
    IF S = {} THEN << >>
    ELSE LET least == CHOOSE a \in S : \A b \in S \ {a} : LexLess(a, b)
         IN  << least >> \o SortedKeys(S \ {least})

RECURSIVE SumOver(_, _, _)
SumOver(df, key, i) ==
    IF i > Len(df.rows) THEN FromInt(0)
    ELSE IF Cell(df, i, NEIGHBOURHOOD) = key
         THEN FAdd(Cell(df, i, Severe_Accident_Probability), SumOver(df, key, i + 1))
         ELSE SumOver(df, key, i + 1)

CountOver(df, key) ==
    Cardinality({i \in 1..Len(df.rows) : Cell(df, i, NEIGHBOURHOOD) = key})

\* A faulty mean: the group's sum over the number of all records.
GroupMean_of_all(df, key) == FDiv(SumOver(df, key, 1), FromInt(Len(df.rows)))

\* ['Severe_Accident_Probability'].mean() of one group
GroupMean(df, key) == FDiv(SumOver(df, key, 1), FromInt(CountOver(df, key)))

\* groupby(...)[...].mean().reset_index(): one row per label, by label.
Grouped(df) ==
    LET keys == SortedKeys(GroupKeys(df))
    IN  [k \in 1..Len(keys) |->
            [NEIGHBOURHOOD |-> keys[k],
             Severe_Accident_Probability |-> GroupMean(df, keys[k])]]

\* sort_values(by='Severe_Accident_Probability', ascending=False) sorts with
\* the default kind='quicksort', which is not stable: rows of equal value
\* come out in an order the sort does not fix.  The orders of the rows
\* idx of g in which no row precedes a row of greater value:
RECURSIVE SortedOrders(_, _)
SortedOrders(g, idx) ==
    IF idx = {} THEN {<< >>}
    ELSE LET top == {i \in idx : \A j \in idx :
                        ~FLess(g[i].Severe_Accident_Probability,
                               g[j].Severe_Accident_Probability)}
         IN  UNION {{<< g[i] >> \o t : t \in SortedOrders(g, idx \ {i})} : i \in top}

sort_values(g) == SortedOrders(g, DOMAIN g)

\* A faulty head: one row too many.
head_one_more(s, n) == SubSeq(s, 1, IF Len(s) < n + 1 THEN Len(s) ELSE n + 1)

\* .head(n)
head(s, n) == SubSeq(s, 1, IF Len(s) < n THEN Len(s) ELSE n)

TopAreas ==
    /\ pc = "top_areas"
    /\ UNCHANGED << file, features_columns, data, neigh_cols, prob_min,
                    prob_max, warnings, rendered >>
    /\ IF NEIGHBOURHOOD \notin Range(data.columns)
       THEN /\ Raise(ErrKey)
            /\ UNCHANGED top_areas
       ELSE /\ \E s \in sort_values(Grouped(data)) : top_areas' = head(s, TopN)
            /\ pc' = "color"
            /\ UNCHANGED error

\* 'red' if i < 5 else 'blue'
HighlightN == 5

\* A faulty colour: 'red' if i <= 5.
HighlightColor_inclusive(i) == IF i <= HighlightN THEN "red" ELSE "blue"

\* The colour of the row at position i of range(len(top_areas)).
HighlightColor(i) == IF i < HighlightN THEN "red" ELSE "blue"

\* top_areas['color'] = ['red' if i < 5 else 'blue' for i in range(len(top_areas))]
ColorCode ==
    /\ pc = "color"
    /\ top_areas' = [i \in 1..Len(top_areas) |->
                        top_areas[i] @@
                            [color |-> HighlightColor(i - 1)]]
    /\ pc' = "coords"
    /\ UNCHANGED << file, features_columns, data, neigh_cols, prob_min,
                    prob_max, warnings, rendered, error >>

(***************************************************************************)
(* Neighbourhood coordinates                                               *)
(***************************************************************************)

Agincourt ==
    << "A", "g", "i", "n", "c", "o", "u", "r", "t", " ", "S", "o", "u", "t",
       "h", "-", "M", "a", "l", "v", "e", "r", "n", " ", "W", "e", "s", "t" >>

Alderwood == << "A", "l", "d", "e", "r", "w", "o", "o", "d" >>

\* A Python float (degrees, in millionths) and a Python tuple of floats.
PyFloat(x) == [kind |-> "float", v |-> << x >>]

PyTuple(x, y) == [kind |-> "tuple", v |-> << x, y >>]

neigh_coords ==
    (Agincourt :> PyTuple(43801000, -79246000))
        @@ (Alderwood :> PyTuple(43634000, -79556000))

\* dict.get(key, default)
Get(d, key, default) == IF key \in DOMAIN d THEN d[key] ELSE default

\* neigh_coords.get(x, 43.65107)
LatOf(x) == Get(neigh_coords, x, PyFloat(43651070))

\* neigh_coords.get(x, -79.347015)
LonOf(x) == Get(neigh_coords, x, PyFloat(-79347015))

Coordinates ==
    /\ pc = "coords"
    /\ top_areas' = [i \in 1..Len(top_areas) |->
                        top_areas[i] @@
                            [lat |-> LatOf(top_areas[i].NEIGHBOURHOOD),
                             lon |-> LonOf(top_areas[i].NEIGHBOURHOOD)]]
    /\ pc' = "layout"
    /\ UNCHANGED << file, features_columns, data, neigh_cols, prob_min,
                    prob_max, warnings, rendered, error >>

(***************************************************************************)
(* Title, bar chart and table                                              *)
(***************************************************************************)

Layout ==
    /\ pc = "layout"
    /\ rendered' = rendered \o << "title", "bar_chart", "table" >>
    /\ pc' = "radius"
    /\ UNCHANGED << file, features_columns, data, neigh_cols, top_areas,
                    prob_min, prob_max, warnings, error >>

(***************************************************************************)
(* Map: radius, colour gradient, scatterplot layer                         *)
(***************************************************************************)

max_radius == 800

min_radius == 200

\* Series.min() and Series.max(); NaN for an empty Series.
SeriesMin(s) ==
    IF Len(s) = 0 THEN NaN
    ELSE s[CHOOSE i \in 1..Len(s) : \A j \in 1..Len(s) : ~FLess(s[j], s[i])]

SeriesMax(s) ==
    IF Len(s) = 0 THEN NaN
    ELSE s[CHOOSE i \in 1..Len(s) : \A j \in 1..Len(s) : ~FLess(s[i], s[j])]

Probabilities(t) == [i \in 1..Len(t) |-> t[i].Severe_Accident_Probability]

\* min_radius + (x - prob_min) / (prob_max - prob_min) * (max_radius - min_radius)
RadiusOf(x, lo, hi) ==
    FAdd(FromInt(min_radius),
         FMul(FDiv(FSub(x, lo), FSub(hi, lo)), FromInt(max_radius - min_radius)))

Radius ==
    /\ pc = "radius"
    /\ prob_min' = SeriesMin(Probabilities(top_areas))
    /\ prob_max' = SeriesMax(Probabilities(top_areas))
    /\ top_areas' = [i \in 1..Len(top_areas) |->
                        top_areas[i] @@
                            [radius |-> RadiusOf(top_areas[i].Severe_Accident_Probability,
                                                 prob_min', prob_max')]]
    /\ pc' = "color_map"
    /\ UNCHANGED << file, features_columns, data, neigh_cols, warnings,
                    rendered, error >>

\* The arguments of the two int() calls of the colour gradient:
\* 255 * (x - prob_min) / (prob_max - prob_min) and
\* 255 * (prob_max - x) / (prob_max - prob_min).
RedArg(x, lo, hi) == FDiv(FMul(FromInt(255), FSub(x, lo)), FSub(hi, lo))

BlueArg(x, lo, hi) == FDiv(FMul(FromInt(255), FSub(hi, x)), FSub(hi, lo))

\* int(x) of a finite float truncates toward zero.
Trunc(x) == Sign(x.n) * (Abs(x.n) \div x.d)

\* int(x) raises ValueError for NaN and OverflowError for an infinity.
IntError(x) ==
    IF IsNaN(x) THEN ErrNaN ELSE IF ~IsFinite(x) THEN ErrInf ELSE "none"

ColorOf(x, lo, hi) == << Trunc(RedArg(x, lo, hi)), 0, Trunc(BlueArg(x, lo, hi)), 160 >>

\* The exception the gradient of row value x raises, or "none"; the red
\* channel is evaluated first.
ColorError(x, lo, hi) ==
    IF IntError(RedArg(x, lo, hi)) # "none" THEN IntError(RedArg(x, lo, hi))
    ELSE IntError(BlueArg(x, lo, hi))

ColorMap ==
    /\ pc = "color_map"
    /\ UNCHANGED << file, features_columns, data, neigh_cols, prob_min,
                    prob_max, warnings, rendered >>
    /\ LET bad == {i \in 1..Len(top_areas) :
                     ColorError(top_areas[i].Severe_Accident_Probability,
                                prob_min, prob_max) # "none"}
       IN  IF bad # {}
           THEN \* apply() stops at the first row whose lambda raises
                LET i == CHOOSE k \in bad : \A j \in bad : k <= j
                IN  /\ Raise(ColorError(top_areas[i].Severe_Accident_Probability,
                                        prob_min, prob_max))
                    /\ UNCHANGED top_areas
           ELSE /\ top_areas' = [i \in 1..Len(top_areas) |->
                       top_areas[i] @@
                           [color_map |-> ColorOf(top_areas[i].Severe_Accident_Probability,
                                                  prob_min, prob_max)]]
                /\ pc' = "map"
                /\ UNCHANGED error

MapLayer ==
    /\ pc = "map"
    /\ rendered' = rendered \o << "map" >>
    /\ pc' = "done"
    /\ UNCHANGED << file, features_columns, data, neigh_cols, top_areas,
                    prob_min, prob_max, warnings, error >>

Next ==
    \/ LoadData
    \/ IdentifyNeighbourhoods
    \/ MakePredictions
    \/ TopAreas
    \/ ColorCode
    \/ Coordinates
    \/ Layout
    \/ Radius
    \/ ColorMap
    \/ MapLayer

Spec == Init /\ [][Next]_vars


(***************************************************************************)
(* Properties                                                              *)
(***************************************************************************)

\* The blocks after the ranking has been computed.
AfterTopAreas == {"color", "coords", "layout", "radius", "color_map", "map", "done"}

\* top_areas holds the ranking of this run (a run that raised while drawing
\* the map had computed it).
Ranked == pc \in AfterTopAreas \/ (pc = "raised" /\ error \in {ErrNaN, ErrInf})

\* The dataset of the run has been loaded into data.
Loaded == pc # "load_data"

IndicatorColumns ==
    {i \in 1..Len(data.columns) : StartsWith(data.columns[i], NEIGHBOURHOOD_)}

\* The columns the script adds to data: the labels and the probabilities of
\* the records, in the order of the records.
LabelColumn ==
    LET k == ColumnIndex(data, NEIGHBOURHOOD)
    IN  [i \in 1..Len(data.rows) |-> data.rows[i][k]] \o << >>

ProbColumn ==
    LET k == ColumnIndex(data, Severe_Accident_Probability)
    IN  [i \in 1..Len(data.rows) |-> data.rows[i][k]] \o << >>

\* The records of a label, lab being the labels of the records.
Members(lab, label) == {i \in 1..Len(lab) : lab[i] = label}

RECURSIVE SumOfRows(_, _)
SumOfRows(prob, S) ==
    IF S = {} THEN FromInt(0)
    ELSE LET i == CHOOSE k \in S : TRUE
         IN  FAdd(prob[i], SumOfRows(prob, S \ {i}))

\* The arithmetic mean of the probabilities prob of the records of a label.
MeanOf(lab, prob, label) ==
    LET m == Members(lab, label)
    IN  FDiv(SumOfRows(prob, m), FromInt(Cardinality(m)))

ProbAt(i) == top_areas[i].Severe_Accident_Probability

LabelAt(i) == top_areas[i].NEIGHBOURHOOD

Positions == 1..Len(top_areas)

Retained == {LabelAt(i) : i \in Positions}

\* C1: with no column whose name starts with 'NEIGHBOURHOOD_' the run does
\* not raise: the warning is surfaced, the ranking is empty and the page is
\* drawn.  (The classifier's own rejection of an empty batch is not counted
\* against the claim.)
C1_NoGroupingKeyDegrades ==
    (Loaded /\ IndicatorColumns = {} /\ error # ErrEmpty) =>
        /\ error = "none"
        /\ pc \notin {"load_data", "identify"} => "no_neighbourhood_columns" \in warnings
        /\ pc \in AfterTopAreas => top_areas = << >>
        /\ pc = "done" => rendered = << "title", "bar_chart", "table", "map" >>

\* C2: when every retained entry has the same mean probability, no numeric
\* error is raised, every radius is min_radius and the colour gradient is
\* computed.
C2_DegenerateRadiusIsMin ==
    (/\ pc \in {"color_map", "map", "done", "raised"}
     /\ top_areas # << >>
     /\ \A i, j \in Positions : ProbAt(i) = ProbAt(j)) =>
        /\ error = "none"
        /\ \A i \in Positions : top_areas[i].radius = FromInt(min_radius)
        /\ pc \in {"map", "done"} =>
               \A i \in Positions : "color_map" \in DOMAIN top_areas[i]

\* C3: with zero input records (the missing-dataset fallback included) the
\* run does not raise and the ranking is empty.  (The classifier's own
\* rejection of an empty batch is not counted against the claim.)
C3_EmptyInputSafe ==
    (Loaded /\ data.rows = << >> /\ error # ErrEmpty) =>
        /\ error = "none"
        /\ pc \in AfterTopAreas => top_areas = << >>

\* C4: when a required feature column is absent the run does not raise: the
\* warning is surfaced, every record's probability is 0, and the run goes on
\* through ranking, normalization and presentation, for any number of
\* groups.  (Stated for datasets that have indicator columns.)
C4_MissingFeaturesDegrade ==
    (/\ Loaded
     /\ IndicatorColumns # {}
     /\ \E i \in 1..Len(features_columns) : features_columns[i] \notin Range(data.columns)) =>
        /\ error = "none"
        /\ pc \notin {"load_data", "identify", "predict"} =>
               /\ "no_feature_columns" \in warnings
               /\ \A i \in 1..Len(data.rows) : ProbColumn[i] = FromInt(0)

\* C5: the ranking has min(G, 20) entries, one per label, in order of
\* non-increasing mean, and no omitted label has a mean greater than that of
\* a retained entry.
C5_TopTwentyByMean ==
    Ranked =>
        LET lab == LabelColumn
            prob == ProbColumn
            labels == Range(lab)
        IN  /\ Len(top_areas) = IF Cardinality(labels) < 20 THEN Cardinality(labels) ELSE 20
            /\ Retained \subseteq labels
            /\ \A i, j \in Positions : LabelAt(i) = LabelAt(j) => i = j
            /\ \A i, j \in Positions : i < j => ~FLess(ProbAt(i), ProbAt(j))
            /\ \A l \in labels \ Retained : \A i \in Positions :
                   ~FLess(ProbAt(i), MeanOf(lab, prob, l))

\* C5 witness: more than 20 labels, 20 of them ranked.
C5_Witness ==
    /\ Ranked
    /\ Cardinality(Range(LabelColumn)) > 20
    /\ Len(top_areas) = 20

\* C6: groups of equal mean probability appear in ascending order of their
\* labels, and of the groups tied at the cut those of the least labels are
\* retained.
C6_TiesInLabelOrder ==
    Ranked =>
        LET lab == LabelColumn
            prob == ProbColumn
        IN  /\ \A i, j \in Positions :
                   (i < j /\ ProbAt(i) = ProbAt(j)) => LexLess(LabelAt(i), LabelAt(j))
            /\ \A l \in Range(lab) \ Retained : \A i \in Positions :
                   ProbAt(i) = MeanOf(lab, prob, l) => LexLess(LabelAt(i), l)

\* Of the indicator columns, at the positions ic of data.columns, the one at
\* position k holds the maximum of the row's indicator cells, and none
\* before it does.
IsFirstMax(row, k, ic) ==
    \A j \in ic :
        /\ row[j] <= row[k]
        /\ j < k => row[j] < row[k]

IsDigitRun(s, a, b) == a <= b /\ \A k \in a..b : s[k] \in Digits

\* The position after an occurrence of 'NEIGHBOURHOOD_<digits>_' at b, or 0.
PrefixOccurrence(s, b) ==
    IF ~StartsWithAt(s, b, NEIGHBOURHOOD_) THEN 0
    ELSE LET d == b + Len(NEIGHBOURHOOD_)
             ends == {e \in (d + 1)..Len(s) : s[e] = "_" /\ IsDigitRun(s, d, e - 1)}
         IN  IF ends = {} THEN 0 ELSE (CHOOSE e \in ends : TRUE) + 1

\* The position after an occurrence at b of '(<digits>)' with the whitespace
\* before it, or 0.
SuffixOccurrence(s, b) ==
    IF s[b] \notin Whitespace \cup {"("} THEN 0
    ELSE LET ends == {e \in (b + 2)..Len(s) :
                         /\ s[e] = ")"
                         /\ \E p \in b..(e - 2) :
                                /\ s[p] = "("
                                /\ \A k \in b..(p - 1) : s[k] \in Whitespace
                                /\ IsDigitRun(s, p + 1, e - 1)}
         IN  IF ends = {} THEN 0 ELSE (CHOOSE e \in ends : \A f \in ends : e <= f) + 1

\* s without its leading 'NEIGHBOURHOOD_<digits>_', if it has one.
WithoutLeadingPrefix(s) ==
    IF PrefixOccurrence(s, 1) = 0 THEN s ELSE SubSeq(s, PrefixOccurrence(s, 1), Len(s))

\* s without its trailing ' (<digits>)', if it has one.
WithoutTrailingSuffix(s) ==
    LET starts == {b \in 1..Len(s) :
                      /\ s[b] = " "
                      /\ b + 1 <= Len(s) /\ s[b + 1] = "("
                      /\ s[Len(s)] = ")"
                      /\ IsDigitRun(s, b + 2, Len(s) - 1)}
    IN  IF starts = {} THEN s ELSE SubSeq(s, 1, (CHOOSE b \in starts : TRUE) - 1)

\* The positions from i on that lie in no occurrence, the occurrences taken
\* from left to right and none overlapping an earlier one; ends[b] is the
\* position after the occurrence at b, or 0, and removed the last position
\* removed so far.
RECURSIVE KeptPositions(_, _, _)
KeptPositions(ends, i, removed) ==
    IF i > Len(ends) THEN {}
    ELSE IF removed >= i THEN KeptPositions(ends, i + 1, removed)
    ELSE IF ends[i] # 0 THEN KeptPositions(ends, i + 1, ends[i] - 1)
    ELSE {i} \cup KeptPositions(ends, i + 1, removed)

\* s without those occurrences; End(b) is the position after the occurrence
\* at b, or 0.
WithoutOccurrences(s, End(_)) ==
    LET kept == KeptPositions([b \in 1..Len(s) |-> End(b)], 1, 0)
    IN  [k \in 1..Cardinality(kept) |->
            s[CHOOSE i \in kept : Cardinality({j \in kept : j <= i}) = k]]

WithoutAllOccurrences(s) ==
    LET t == WithoutOccurrences(s, LAMBDA b : PrefixOccurrence(s, b))
    IN  WithoutOccurrences(t, LAMBDA b : SuffixOccurrence(t, b))

Labelled == pc \notin {"load_data", "identify"} /\ IndicatorColumns # {}

C8_MeanOfMembers ==
    Ranked =>
        LET lab == LabelColumn
            prob == ProbColumn
        IN  /\ \A i \in Positions : ProbAt(i) = MeanOf(lab, prob, LabelAt(i))
            /\ \A r \in 1..Len(lab) :
                   Cardinality({i \in Positions : LabelAt(i) = lab[r]}) =
                       IF lab[r] \in Retained THEN 1 ELSE 0

\* C8 witness: a ranked label of two records of probabilities 10 and 25,
\* whose mean is 35/2.
C8_Witness ==
    /\ Ranked
    /\ \E i \in Positions :
           LET m == Members(LabelColumn, LabelAt(i))
           IN  /\ Cardinality(m) = 2
               /\ \E a, b \in m : ProbColumn[a] = FromInt(10) /\ ProbColumn[b] = FromInt(25)
               /\ ProbAt(i) = Q(35, 2)

\* top_areas has its colour column.
Coloured == pc \in AfterTopAreas \ {"color"} \/ (pc = "raised" /\ error \in {ErrNaN, ErrInf})

\* C9: an entry is red exactly if its rank is 1 to 5 and blue otherwise (with
\* fewer than 5 entries all are red); the rank is the position in the order of
\* non-increasing mean.
C9_TopFiveHighlighted ==
    Coloured =>
        /\ \A i \in Positions : top_areas[i].color = IF i <= 5 THEN "red" ELSE "blue"
        /\ \A i, j \in Positions :
               (top_areas[i].color = "red" /\ top_areas[j].color = "blue") =>
                   ~FLess(ProbAt(i), ProbAt(j))
        /\ Len(top_areas) < 5 => \A i \in Positions : top_areas[i].color = "red"

\* C9 witness: a ranking of more than 5 entries, the fifth red, the sixth blue.
C9_Witness ==
    /\ Coloured
    /\ Len(top_areas) > 5
    /\ top_areas[5].color = "red"
    /\ top_areas[6].color = "blue"

\* top_areas has its lat and lon columns.
Located ==
    pc \in {"layout", "radius", "color_map", "map", "done"}
        \/ (pc = "raised" /\ error \in {ErrNaN, ErrInf})

\* C10: lat and lon of an entry are single numbers: the table's latitude and
\* longitude of the label, or 43.65107 and -79.347015 for a label the table
\* does not have.
C10_ScalarCoordinates ==
    Located =>
        \A i \in Positions :
            /\ top_areas[i].lat.kind = "float"
            /\ top_areas[i].lon.kind = "float"
            /\ top_areas[i].lat.v =
                   IF LabelAt(i) \in DOMAIN neigh_coords
                   THEN << neigh_coords[LabelAt(i)].v[1] >> ELSE << 43651070 >>
            /\ top_areas[i].lon.v =
                   IF LabelAt(i) \in DOMAIN neigh_coords
                   THEN << neigh_coords[LabelAt(i)].v[2] >> ELSE << -79347015 >>

=============================================================================
